---- MODULE Spec2Model ----
(***************************************************************************)
(* A model of the Stripe subscription relay of src/server.js: three HTTP   *)
(* handlers (payment-sheet, webhook, cancel-subscription) that call the    *)
(* billing provider and write subscription documents to the document       *)
(* store.  Every `await` of a handler is a step of its own, so requests    *)
(* interleave exactly where the JavaScript event loop lets them.           *)
(***************************************************************************)
EXTENDS Integers, Sequences, FiniteSets, TLC

VARIABLES
    docs,        \* the "subscriptions" collection: uid -> document (present fields only)
    customers,   \* provider customers: customer id -> [metadata]
    subs,        \* provider subscriptions: subscription id -> record
    webhookKey,  \* process.env.STRIPE_WEBHOOK_KEY
    reqs,        \* requests in flight: slot -> handler activation
    started,     \* number of requests received so far
    lastResp,    \* history: the handler activation that finished last
    lastWrite    \* history: the last successful document write

vars == <<docs, customers, subs, webhookKey, reqs, started, lastResp, lastWrite>>

----------------------------------------------------------------------------
(* Bounds of the model *)

MaxRequests == 3

\* the Issuer requests of the specification with redelivery
MaxIssued == 1

Uids == {"u1", "u2"}

Prices == {"price_x"}

Times == {1, 2}

\* the statuses a subscription event of each type carries
StatusesOf(type) ==
    CASE type = "customer.subscription.created" -> {"incomplete"}
      [] type = "customer.subscription.updated" -> {"active", "past_due"}
      [] OTHER -> {"canceled"}

----------------------------------------------------------------------------
(* JavaScript values *)

Undefined == "undefined"

Null == "null"

Truthy(v) == v # Undefined /\ v # Null /\ v # ""

\* new Date(seconds * 1000), as the store keeps it (epoch milliseconds)
ToDate(seconds) == ToString(seconds * 1000)

----------------------------------------------------------------------------
(* The provider's side: secrets, signatures, events *)

ProviderSecret == "whsec_live"

ForgedSecret == "whsec_forged"

\* the provider's signature scheme: a MAC of the raw body under a secret
Sign(body, secret) == [payload |-> body, secret |-> secret]

HandledTypes == {"customer.subscription.created", "customer.subscription.updated",
                 "invoice.payment_succeeded", "invoice.payment_failed"}

SubscriptionTypes == {"customer.subscription.created", "customer.subscription.updated",
                      "customer.subscription.deleted"}

InvoiceTypes == {"invoice.payment_succeeded", "invoice.payment_failed"}

AmountOf(price) == IF price = "price_x" THEN 999 ELSE 1999

SubscriptionEvent(type, sid, st, t) ==
    [type |-> type, created |-> t,
     object |-> [id |-> sid,
                 customer |-> subs[sid].customer,
                 status |-> st,
                 price |-> subs[sid].price,
                 created |-> subs[sid].created,
                 current_period_start |-> t,
                 current_period_end |-> t + 1,
                 cancel_at_period_end |-> subs[sid].cancel_at_period_end]]

InvoiceEvent(type, cid, sid, t) ==
    [type |-> type, created |-> t,
     object |-> [customer |-> cid,
                 subscription |-> sid,
                 created |-> t,
                 amount_paid |-> IF sid = Null THEN 0 ELSE AmountOf(subs[sid].price),
                 invoice_pdf |-> "pdf_" \o ToString(t)]]

\* the events the provider can have emitted for the objects it holds
ProviderEvents ==
    UNION { { SubscriptionEvent(type, sid, st, t) :
                sid \in DOMAIN subs, st \in StatusesOf(type), t \in Times } :
            type \in SubscriptionTypes }
    \cup
    UNION { { InvoiceEvent(type, cid, sid, t) :
                type \in InvoiceTypes,
                sid \in {Null} \cup {s \in DOMAIN subs : subs[s].customer = cid},
                t \in Times } : cid \in DOMAIN customers }

----------------------------------------------------------------------------
(* The document store *)

EmptyStore == [k \in {} |-> {}]


\* a merge that enforces the progression of the status: a document that is
\* "cancelling" keeps its status
MergeGuardStatus(d, upd) ==
    [f \in DOMAIN d \cup DOMAIN upd |->
        IF f \notin DOMAIN upd THEN d[f]
        ELSE IF f = "status" /\ f \in DOMAIN d /\ d[f] = "cancelling" THEN d[f]
        ELSE upd[f]]

\* a merge that adds a payment's amount to the stored one (an increment transform)
MergeIncrement(d, upd) ==
    [f \in DOMAIN d \cup DOMAIN upd |->
        IF f \notin DOMAIN upd THEN d[f]
        ELSE IF f = "lastPaymentAmount" /\ f \in DOMAIN d THEN d[f] + upd[f]
        ELSE upd[f]]

\* a merge that only adds fields: a field the document holds keeps its value
MergeKeepStored(d, upd) ==
    [f \in DOMAIN d \cup DOMAIN upd |-> IF f \in DOMAIN d THEN d[f] ELSE upd[f]]

Merge(d, upd) ==
    [f \in DOMAIN d \cup DOMAIN upd |-> IF f \in DOMAIN upd THEN upd[f] ELSE d[f]]

Put(store, key, d) ==
    [k \in DOMAIN store \cup {key} |-> IF k = key THEN d ELSE store[k]]

NotFoundError == "No document to update"

\* setDoc(ref, data) without {merge: true}: the document becomes exactly data
SetDoc(store, key, data) == [ok |-> TRUE, store |-> Put(store, key, data), error |-> ""]

\* the write of setDoc where updateDoc is meant: the document becomes exactly data
UpdateDocReplace(store, key, data) ==
    IF key \in DOMAIN store
      THEN [ok |-> TRUE, store |-> Put(store, key, data), error |-> ""]
      ELSE [ok |-> FALSE, store |-> store, error |-> NotFoundError]

\* setDoc(ref, data, {merge: true}) where updateDoc is meant: a missing document is created
UpdateDocUpsert(store, key, data) ==
    [ok |-> TRUE,
     store |-> Put(store, key, IF key \in DOMAIN store THEN Merge(store[key], data) ELSE data),
     error |-> ""]

\* updateDoc(ref, data): the fields of data are merged into the existing document;
\* it rejects with not-found when there is no document
UpdateDoc(store, key, data) ==
    IF key \in DOMAIN store
      THEN [ok |-> TRUE, store |-> Put(store, key, Merge(store[key], data)), error |-> ""]
      ELSE [ok |-> FALSE, store |-> store, error |-> NotFoundError]

----------------------------------------------------------------------------
(* Handler activations *)

\* a second request can be accepted while a first one is awaiting
Slots == {1, 2}

Idle == [kind |-> "idle"]

NoEvent == [type |-> "none"]

NoBody == [pending |-> TRUE]

NoData == [f \in {} |-> {}]

NewReq(kind, pc) ==
    [kind |-> kind, pc |-> pc,
     id |-> 0,                                        \* the request's number of arrival
     uid |-> Undefined, priceId |-> Undefined,        \* req.body of the JSON endpoints
     signature |-> "none",                            \* how the webhook's header was made
     event |-> NoEvent,                               \* the verified event
     customerId |-> Undefined, subscriptionId |-> Undefined, ephemeralKey |-> Undefined,
     periodEnd |-> 0,                                 \* current_period_end of the provider's answer
     read |-> NoData,                                 \* subscriptionDoc.data()
     data |-> NoData,                                 \* the fields handed to the store
     status |-> 0, body |-> NoBody, sends |-> 0,      \* the response, and how often one was sent
     verified |-> FALSE,                              \* constructEvent returned an event
     calls |-> <<>>,                                  \* the provider and store calls made
     threw |-> "none",                                \* the call that threw
     updates |-> <<>>,                                \* the arguments of stripe.subscriptions.update
     wrote |-> FALSE]                                 \* a document write of this request succeeded

InFlight == {i \in Slots : reqs[i] # Idle}

\* a request is accepted into the lowest free slot
Accepts(i) ==
    /\ reqs[i] = Idle
    /\ \A j \in Slots : j < i => reqs[j] # Idle
    /\ started < MaxRequests

\* res.status(code).json(body): only the first send of a request reaches the client
Send(r, code, body) ==
    [r EXCEPT !.status = IF r.sends = 0 THEN code ELSE @,
              !.body = IF r.sends = 0 THEN body ELSE @,
              !.sends = @ + 1]

Err(message) == [error |-> message]

\* the handler calls an API and awaits it
Call(r, api, pc) == [r EXCEPT !.calls = Append(@, api), !.pc = pc]



\* a catch block that swallows the error and acknowledges the request
CatchAcknowledge(r, api, message) ==
    Send([r EXCEPT !.threw = api], 200, [received |-> TRUE])

\* a catch block that answers 500 instead of 400
CatchServerError(r, api, message) == Send([r EXCEPT !.threw = api], 500, Err(message))

\* the awaited call throws: the catch block answers 400 with the error's message
Catch(r, api, message) == Send([r EXCEPT !.threw = api], 400, Err(message))

Count(calls, api) == Cardinality({k \in DOMAIN calls : calls[k] = api})

\* the handler returns: its slot is free again
Finish(i, r) ==
    /\ reqs' = [reqs EXCEPT ![i] = Idle]
    /\ lastResp' = [r EXCEPT !.pc = "done"]

Continue(i, r) ==
    /\ reqs' = [reqs EXCEPT ![i] = r]
    /\ UNCHANGED lastResp

\* a document write that succeeded, for the history: `others` are the requests
\* in flight next to the writer, `overlapped` says that the writer was in flight
\* already when the write before this one was made
Written(r, key, store) ==
    [kind |-> r.kind, event |-> r.event, uid |-> key, data |-> r.data,
     customerId |-> r.customerId, subscriptionId |-> r.subscriptionId,
     pre |-> docs, post |-> store,
     others |-> {reqs[j].id : j \in InFlight} \ {r.id},
     overlapped |-> r.id \in lastWrite.others,
     prev |-> [kind |-> lastWrite.kind, event |-> lastWrite.event, uid |-> lastWrite.uid,
               data |-> lastWrite.data]]

NoWrite ==
    [kind |-> "none", event |-> NoEvent, uid |-> Undefined, data |-> NoData,
     customerId |-> Undefined, subscriptionId |-> Undefined,
     pre |-> EmptyStore, post |-> EmptyStore,
     others |-> {}, overlapped |-> FALSE,
     prev |-> [kind |-> "none", event |-> NoEvent, uid |-> Undefined, data |-> NoData]]

ProviderError == "provider unavailable"

StoreError == "store unavailable"

----------------------------------------------------------------------------
(* POST /api/stripe/webhook *)

SignatureHeader(headers) ==
    IF "stripe-signature" \in DOMAIN headers THEN headers["stripe-signature"] ELSE Sign(NoEvent, Undefined)

\* if (!sig)
SignatureMissing(headers) == "stripe-signature" \notin DOMAIN headers


\* the handler without the check of the configured secret
SecretNeverMissing(key) == FALSE

\* if (!process.env.STRIPE_WEBHOOK_KEY)
SecretMissing(key) == ~Truthy(key)

\* constructEvent replaced by a plain parse of the body: nothing is verified
ConstructEventUnverified(body, sig, key) == TRUE

\* stripe.webhooks.constructEvent(req.body, sig, key) returns the event, or throws
ConstructEventOk(body, sig, key) == sig = Sign(body, key)

\* the switch on event.type: the cases that look the customer up
IsHandled(type) == type \in HandledTypes

\* a fallback uid where the metadata holds none
MetadataUidOrDefault(customer) ==
    IF "uid" \in DOMAIN customer.metadata THEN customer.metadata.uid ELSE "u2"

\* customer.metadata.uid
MetadataUid(customer) ==
    IF "uid" \in DOMAIN customer.metadata THEN customer.metadata.uid ELSE Undefined


\* the invoice cases without the guard on invoice.subscription
MutatesAlways(event) == TRUE

\* the invoice cases write only if (invoice.subscription); the subscription cases always
MutatesDocument(event) ==
    IF event.type \in InvoiceTypes THEN Truthy(event.object.subscription) ELSE TRUE

\* the fields of the cases, with the subscription's id written by every case
EventFieldsWithId(event, customerId) ==
    LET o == event.object IN
    CASE event.type \in SubscriptionTypes ->
           [status |-> o.status, planId |-> o.price, subscriptionId |-> o.id,
            customerId |-> customerId, createdAt |-> ToDate(o.created),
            currentPeriodStart |-> ToDate(o.current_period_start),
            currentPeriodEnd |-> ToDate(o.current_period_end),
            cancelAtPeriodEnd |-> o.cancel_at_period_end]
      [] event.type = "invoice.payment_succeeded" ->
           [status |-> "active", customerId |-> customerId, subscriptionId |-> o.subscription,
            lastPaymentDate |-> ToDate(o.created),
            lastPaymentAmount |-> o.amount_paid,
            invoicePdf |-> o.invoice_pdf]
      [] OTHER ->
           [status |-> "past_due", customerId |-> customerId, subscriptionId |-> o.subscription,
            lastFailedPaymentDate |-> ToDate(o.created)]

\* the fields each case hands to updateDoc
EventFields(event, customerId) ==
    LET o == event.object IN
    CASE event.type = "customer.subscription.created" ->
           [status |-> o.status, planId |-> o.price, subscriptionId |-> o.id,
            customerId |-> customerId, createdAt |-> ToDate(o.created),
            currentPeriodStart |-> ToDate(o.current_period_start),
            currentPeriodEnd |-> ToDate(o.current_period_end),
            cancelAtPeriodEnd |-> o.cancel_at_period_end]
      [] event.type = "customer.subscription.updated" ->
           [status |-> o.status, planId |-> o.price, customerId |-> customerId,
            currentPeriodStart |-> ToDate(o.current_period_start),
            currentPeriodEnd |-> ToDate(o.current_period_end),
            cancelAtPeriodEnd |-> o.cancel_at_period_end]
      [] event.type = "invoice.payment_succeeded" ->
           [status |-> "active", customerId |-> customerId,
            lastPaymentDate |-> ToDate(o.created),
            lastPaymentAmount |-> o.amount_paid,
            invoicePdf |-> o.invoice_pdf]
      [] event.type = "invoice.payment_failed" ->
           [status |-> "past_due", customerId |-> customerId,
            lastFailedPaymentDate |-> ToDate(o.created)]
      [] OTHER -> NoData

Received == [received |-> TRUE]

SignatureCases == {"missing", "valid", "forged", "tampered"}

\* the headers of a request for `body`: no signature, the provider's, one made
\* with another secret, or the provider's for a payload that was changed since
HeadersOf(body, case) ==
    CASE case = "missing" -> NoData
      [] case = "valid" -> ("stripe-signature" :> Sign(body, ProviderSecret))
      [] case = "forged" -> ("stripe-signature" :> Sign(body, ForgedSecret))
      [] OTHER -> ("stripe-signature" :> Sign([body EXCEPT !.created = @ + 1], ProviderSecret))

\* the handler up to its first await: the signature checks, constructEvent and
\* the switch on the type, for request number `id` with body `body`
WebhookReceive(i, id, body, case) ==
    LET r == [NewReq("webhook", "auth") EXCEPT !.signature = case, !.id = id]
        headers == HeadersOf(body, case)
        sig == SignatureHeader(headers)
        ev == [r EXCEPT !.event = body, !.verified = TRUE]
    IN  IF SignatureMissing(headers)
          THEN Finish(i, Send(r, 400, Err("Webhook Error: Missing signature")))
        ELSE IF SecretMissing(webhookKey)
          THEN Finish(i, Send(r, 500, Err("Server configuration error")))
        ELSE IF ~ConstructEventOk(body, sig, webhookKey)
          THEN Finish(i, Send(r, 400, Err("Webhook Error: signature mismatch")))
        ELSE IF IsHandled(body.type)
          THEN Continue(i, Call([ev EXCEPT !.customerId = body.object.customer],
                                "stripe.customers.retrieve", "retrieve"))
        ELSE Finish(i, Send(ev, 200, Received))

\* the request arrives
WebhookArrive(i) ==
    /\ Accepts(i)
    /\ started' = started + 1
    /\ \E body \in ProviderEvents, case \in SignatureCases :
         WebhookReceive(i, started + 1, body, case)
    /\ UNCHANGED <<docs, customers, subs, webhookKey, lastWrite>>

\* await stripe.customers.retrieve(customerId) settles
CustomerRetrieveReturn(i) ==
    /\ reqs[i] # Idle
    /\ reqs[i].pc = "retrieve"
    /\ \E ok \in BOOLEAN :
         LET r == reqs[i]
             uid == MetadataUid(customers[r.customerId])
         IN  IF ~ok
               THEN Finish(i, Catch(r, "stripe.customers.retrieve", ProviderError))
             ELSE IF ~Truthy(uid)
               THEN Finish(i, Send(r, 400, Err("UID not found in metadata")))
             ELSE IF ~MutatesDocument(r.event)
               THEN Finish(i, Send([r EXCEPT !.uid = uid], 200, Received))
             ELSE Continue(i, Call([r EXCEPT !.uid = uid,
                                             !.data = EventFields(r.event, r.customerId)],
                                   "updateDoc", "updateDoc"))
    /\ UNCHANGED <<docs, customers, subs, webhookKey, started, lastWrite>>

\* await updateDoc(doc(db, "subscriptions", uid), {...}) settles
WebhookUpdateDocReturn(i) ==
    /\ reqs[i] # Idle
    /\ reqs[i].kind = "webhook"
    /\ reqs[i].pc = "updateDoc"
    /\ \E ok \in BOOLEAN :
         LET r == reqs[i]
             w == UpdateDoc(docs, r.uid, r.data)
         IN  IF ok /\ w.ok
               THEN /\ docs' = w.store
                    /\ lastWrite' = Written(r, r.uid, docs')
                    /\ Finish(i, Send([r EXCEPT !.wrote = TRUE], 200, Received))
               ELSE /\ UNCHANGED <<docs, lastWrite>>
                    /\ Finish(i, Catch(r, "updateDoc", IF ok THEN w.error ELSE StoreError))
    /\ UNCHANGED <<customers, subs, webhookKey, started>>

----------------------------------------------------------------------------
(* POST /api/stripe/payment-sheet *)

NextId(prefix, table) == prefix \o ToString(Cardinality(DOMAIN table) + 1)


\* a customer created without the uid in its metadata
NewCustomerUntagged(uid) == [metadata |-> NoData]

\* stripe.customers.create({name, metadata: {uid}}): an undefined uid is not sent
NewCustomer(uid) ==
    [metadata |-> IF uid = Undefined THEN NoData ELSE [uid |-> uid]]

\* stripe.subscriptions.create({customer, items: [{price}], ...})
NewSubscription(customerId, priceId) ==
    [customer |-> customerId, price |-> priceId, created |-> 1,
     current_period_end |-> 2, cancel_at_period_end |-> FALSE]

\* the body of res.json(...)
PaymentSheetBody(r, sid) ==
    [paymentIntent |-> "pi_secret_" \o sid, ephemeralKey |-> r.ephemeralKey,
     customer |-> r.customerId, subscriptionId |-> sid]


\* a pending document that carries the customer's id as its uid
PendingDocumentByCustomer(uid, customerId, sid) ==
    [uid |-> customerId, status |-> "pending", stripeCustomerId |-> customerId,
     subscriptionId |-> sid, currentPeriodEnd |-> Null]

\* the document handed to setDoc
PendingDocument(uid, customerId, sid) ==
    [uid |-> uid, status |-> "pending", stripeCustomerId |-> customerId,
     subscriptionId |-> sid, currentPeriodEnd |-> Null]

\* doc(collection(db, "subscriptions"), uid) throws on an empty path
DocRefOk(uid) == Truthy(uid)

PaymentSheetArrive(i) ==
    /\ Accepts(i)
    /\ started' = started + 1
    /\ \E uid \in Uids \cup {Undefined}, priceId \in Prices :
         Continue(i, Call([NewReq("payment-sheet", "start")
                               EXCEPT !.uid = uid, !.priceId = priceId,
                                      !.id = started + 1],
                          "stripe.customers.create", "createCustomer"))
    /\ UNCHANGED <<docs, customers, subs, webhookKey, lastWrite>>

\* await stripe.customers.create(...) settles
CreateCustomerReturn(i) ==
    /\ reqs[i] # Idle
    /\ reqs[i].pc = "createCustomer"
    /\ \E ok \in BOOLEAN :
         LET r == reqs[i]
             id == NextId("cus_", customers)
         IN  IF ok
               THEN /\ customers' = Put(customers, id, NewCustomer(r.uid))
                    /\ Continue(i, Call([r EXCEPT !.customerId = id],
                                        "stripe.ephemeralKeys.create", "ephemeralKey"))
               ELSE /\ UNCHANGED customers
                    /\ Finish(i, Catch(r, "stripe.customers.create", ProviderError))
    /\ UNCHANGED <<docs, subs, webhookKey, started, lastWrite>>

\* await stripe.ephemeralKeys.create(...) settles
EphemeralKeyReturn(i) ==
    /\ reqs[i] # Idle
    /\ reqs[i].pc = "ephemeralKey"
    /\ \E ok \in BOOLEAN :
         LET r == reqs[i] IN
         IF ok
           THEN Continue(i, Call([r EXCEPT !.ephemeralKey = "ek_secret_" \o r.customerId],
                                 "stripe.subscriptions.create", "createSubscription"))
           ELSE Finish(i, Catch(r, "stripe.ephemeralKeys.create", ProviderError))
    /\ UNCHANGED <<docs, customers, subs, webhookKey, started, lastWrite>>

\* await stripe.subscriptions.create(...) settles; res.json(...) and the call of setDoc
SubscriptionCreateReturn(i) ==
    /\ reqs[i] # Idle
    /\ reqs[i].pc = "createSubscription"
    /\ \E ok \in BOOLEAN :
         LET r == reqs[i]
             sid == NextId("sub_", subs)
             sent == Send([r EXCEPT !.subscriptionId = sid], 200, PaymentSheetBody(r, sid))
         IN  IF ok
               THEN /\ subs' = Put(subs, sid, NewSubscription(r.customerId, r.priceId))
                    /\ IF DocRefOk(r.uid)
                         THEN Continue(i, Call([sent EXCEPT !.data =
                                                  PendingDocument(r.uid, r.customerId, sid)],
                                               "setDoc", "setDoc"))
                         ELSE Finish(i, Catch(sent, "doc", "empty document path"))
               ELSE /\ UNCHANGED subs
                    /\ Finish(i, Catch(r, "stripe.subscriptions.create", ProviderError))
    /\ UNCHANGED <<docs, customers, webhookKey, started, lastWrite>>

\* await setDoc(...) settles
SetDocReturn(i) ==
    /\ reqs[i] # Idle
    /\ reqs[i].pc = "setDoc"
    /\ \E ok \in BOOLEAN :
         LET r == reqs[i]
             w == SetDoc(docs, r.uid, r.data)
         IN  IF ok /\ w.ok
               THEN /\ docs' = w.store
                    /\ lastWrite' = Written(r, r.uid, docs')
                    /\ Finish(i, [r EXCEPT !.wrote = TRUE])
               ELSE /\ UNCHANGED <<docs, lastWrite>>
                    /\ Finish(i, Catch(r, "setDoc", IF ok THEN w.error ELSE StoreError))
    /\ UNCHANGED <<customers, subs, webhookKey, started>>

----------------------------------------------------------------------------
(* POST /api/stripe/cancel-subscription *)

\* const { subscriptionId } = subscriptionDoc.data()
Field(d, f) == IF f \in DOMAIN d THEN d[f] ELSE Undefined

\* the guards without the check of subscriptionId
CancelGuardExistsOnly(store, uid) == IF uid \notin DOMAIN store THEN 404 ELSE 0

\* the guards on the document read: 404 without a document, 400 without a
\* subscriptionId in it, 0 to go on
CancelGuard(store, uid) ==
    IF uid \notin DOMAIN store THEN 404
    ELSE IF ~Truthy(Field(store[uid], "subscriptionId")) THEN 400
    ELSE 0

CancelGuardError(code) ==
    IF code = 404 THEN "No subscription found" ELSE "No active subscription ID found"

\* the parameters of stripe.subscriptions.update
CancelParams == [cancel_at_period_end |-> TRUE]

\* the fields of an immediate cancellation, without the provider's period end
CancelFieldsImmediate(now, periodEnd) ==
    [status |-> "canceled", cancelAtPeriodEnd |-> FALSE, cancelledAt |-> ToDate(now)]

\* the fields handed to updateDoc
CancelFields(now, periodEnd) ==
    [status |-> "cancelling", cancelAtPeriodEnd |-> TRUE,
     cancelledAt |-> ToDate(now), currentPeriodEnd |-> ToDate(periodEnd)]

\* the body of res.json(...)
CancelBody(periodEnd) ==
    [success |-> TRUE,
     message |-> "Subscription will be cancelled at the end of the billing period",
     data |-> [status |-> "cancelling", currentPeriodEnd |-> ToDate(periodEnd)]]

CancelArrive(i) ==
    /\ Accepts(i)
    /\ started' = started + 1
    /\ \E uid \in Uids \cup {Undefined} :
         LET r == [NewReq("cancel", "start") EXCEPT !.uid = uid, !.id = started + 1] IN
         IF ~Truthy(uid)
           THEN Finish(i, Send(r, 400, Err("UID is required")))
           ELSE Continue(i, Call(r, "getDoc", "getDoc"))
    /\ UNCHANGED <<docs, customers, subs, webhookKey, lastWrite>>

\* await getDoc(...) settles; the guards; the call of stripe.subscriptions.update
GetDocReturn(i) ==
    /\ reqs[i] # Idle
    /\ reqs[i].pc = "getDoc"
    /\ \E ok \in BOOLEAN :
         LET r == reqs[i]
             guard == CancelGuard(docs, r.uid)
             sid == Field(docs[r.uid], "subscriptionId")
         IN  IF ~ok
               THEN Finish(i, Catch(r, "getDoc", StoreError))
             ELSE IF guard # 0
               THEN Finish(i, Send(r, guard, Err(CancelGuardError(guard))))
             ELSE Continue(i, Call([r EXCEPT !.read = docs[r.uid],
                                             !.subscriptionId = sid,
                                             !.updates = Append(@, [id |-> sid,
                                                                    params |-> CancelParams])],
                                   "stripe.subscriptions.update", "subscriptionUpdate"))
    /\ UNCHANGED <<docs, customers, subs, webhookKey, started, lastWrite>>

\* await stripe.subscriptions.update(...) settles; new Date(); the call of updateDoc
SubscriptionUpdateReturn(i) ==
    /\ reqs[i] # Idle
    /\ reqs[i].pc = "subscriptionUpdate"
    /\ \E ok \in BOOLEAN, now \in Times :
         LET r == reqs[i]
             sid == r.subscriptionId
         IN  IF ok /\ sid \in DOMAIN subs
               THEN /\ subs' = [subs EXCEPT ![sid].cancel_at_period_end = TRUE]
                    /\ Continue(i, Call([r EXCEPT !.periodEnd = subs[sid].current_period_end,
                                             !.data = CancelFields(now, subs[sid].current_period_end)],
                                        "updateDoc", "updateDoc"))
               ELSE /\ UNCHANGED subs
                    /\ Finish(i, Catch(r, "stripe.subscriptions.update", ProviderError))
    /\ UNCHANGED <<docs, customers, webhookKey, started, lastWrite>>

\* await updateDoc(...) settles; res.json(...)
CancelUpdateDocReturn(i) ==
    /\ reqs[i] # Idle
    /\ reqs[i].kind = "cancel"
    /\ reqs[i].pc = "updateDoc"
    /\ \E ok \in BOOLEAN :
         LET r == reqs[i]
             w == UpdateDoc(docs, r.uid, r.data)
         IN  IF ok /\ w.ok
               THEN /\ docs' = w.store
                    /\ lastWrite' = Written(r, r.uid, docs')
                    /\ Finish(i, Send([r EXCEPT !.wrote = TRUE], 200, CancelBody(r.periodEnd)))
               ELSE /\ UNCHANGED <<docs, lastWrite>>
                    /\ Finish(i, Catch(r, "updateDoc", IF ok THEN w.error ELSE StoreError))
    /\ UNCHANGED <<customers, subs, webhookKey, started>>

----------------------------------------------------------------------------
(* The system *)

\* a document another client of the store left behind: no subscriptionId
LegacyDocument(uid) == [uid |-> uid, status |-> "pending"]

InitialStore == Put(EmptyStore, "u2", LegacyDocument("u2"))

Init ==
    /\ docs = InitialStore
    /\ customers = EmptyStore
    /\ subs = EmptyStore
    /\ webhookKey \in {ProviderSecret, Undefined}
    /\ reqs = [i \in Slots |-> Idle]
    /\ started = 0
    /\ lastResp = NewReq("none", "done")
    /\ lastWrite = NoWrite

\* a request is received
Arrive(i) ==
    \/ WebhookArrive(i)
    \/ PaymentSheetArrive(i)
    \/ CancelArrive(i)

\* an awaited call of a request in flight settles
Settle(i) ==
    \/ CustomerRetrieveReturn(i)
    \/ WebhookUpdateDocReturn(i)
    \/ CreateCustomerReturn(i)
    \/ EphemeralKeyReturn(i)
    \/ SubscriptionCreateReturn(i)
    \/ SetDocReturn(i)
    \/ GetDocReturn(i)
    \/ SubscriptionUpdateReturn(i)
    \/ CancelUpdateDocReturn(i)

\* requests served one after the other: none arrives while another is in flight
WebhookRequest(i) == InFlight = {} /\ WebhookArrive(i)

PaymentSheetRequest(i) == InFlight = {} /\ PaymentSheetArrive(i)

CancelRequest(i) == InFlight = {} /\ CancelArrive(i)

Next ==
    \E i \in Slots :
        \/ WebhookRequest(i)
        \/ PaymentSheetRequest(i)
        \/ CancelRequest(i)
        \/ Settle(i)

Spec == Init /\ [][Next]_vars

\* requests that overlap: one is accepted while another awaits a call
NextOverlapped == \E i \in Slots : Arrive(i) \/ Settle(i)

SpecOverlapped == Init /\ [][NextOverlapped]_vars

\* Redelivery: the provider delivers the events of the first subscription the
\* Issuer created again and again, one delivery at a time (a delivery answered 200
\* may be repeated as well: delivery is at least once); these deliveries are not
\* counted in `started` and carry no number of their own.
FirstSubscription == "sub_1"

\* the events delivered again: the subscription's creation and its first payment
RetriedTypes == {"customer.subscription.created", "invoice.payment_succeeded"}

RetriedStatus(type) ==
    IF type = "customer.subscription.created" THEN "incomplete" ELSE "active"

RetriedEvent(type) ==
    IF type \in SubscriptionTypes
      THEN SubscriptionEvent(type, FirstSubscription, RetriedStatus(type), 1)
      ELSE InvoiceEvent(type, subs[FirstSubscription].customer, FirstSubscription, 1)

Redeliver(i, type) ==
    /\ reqs[i] = Idle
    /\ \A j \in Slots : j < i => reqs[j] # Idle
    /\ \A j \in InFlight : reqs[j].kind # "webhook"
    /\ FirstSubscription \in DOMAIN subs
    /\ WebhookReceive(i, 0, RetriedEvent(type), "valid")
    /\ UNCHANGED <<docs, customers, subs, webhookKey, started, lastWrite>>

\* the Issuer is called, MaxIssued times at most
IssuerRequest(i) == started < MaxIssued /\ PaymentSheetArrive(i)

NextRedelivery ==
    \E i \in Slots :
        \/ IssuerRequest(i)
        \/ CreateCustomerReturn(i)
        \/ EphemeralKeyReturn(i)
        \/ SubscriptionCreateReturn(i)
        \/ SetDocReturn(i)
        \/ \E type \in RetriedTypes : Redeliver(i, type)
        \/ CustomerRetrieveReturn(i)
        \/ WebhookUpdateDocReturn(i)

\* the customer lookup of a delivery of the event of this type does not fail
RetrieveAnswers(type) ==
    \E i \in Slots :
        /\ reqs[i] # Idle
        /\ reqs[i].event.type = type
        /\ CustomerRetrieveReturn(i)
        /\ ~(reqs'[i] = Idle /\ lastResp'.threw = "stripe.customers.retrieve")

\* the store is available for the write of a delivery of the event of this type
StoreAnswers(type) ==
    \E i \in Slots :
        /\ reqs[i] # Idle
        /\ reqs[i].event.type = type
        /\ WebhookUpdateDocReturn(i)
        /\ lastResp'.body # [error |-> StoreError]

\* every awaited call settles; the provider keeps delivering each event; the
\* lookup and store failures of the deliveries of each event are transient
Fairness ==
    /\ \A i \in Slots : WF_vars(Settle(i))
    /\ \A type \in RetriedTypes :
          /\ SF_vars(\E i \in Slots : Redeliver(i, type))
          /\ SF_vars(RetrieveAnswers(type))
          /\ SF_vars(StoreAnswers(type))

SpecRedelivery == Init /\ [][NextRedelivery]_vars /\ Fairness

----------------------------------------------------------------------------
(* Properties *)

\* C1: a webhook request without a stripe-signature header, or whose signature
\* does not verify against the raw body and the configured secret, is answered
\* with 400; it looks no customer up and writes no document, and no request with
\* such a signature is ever past the signature checks.
SignatureRejection ==
    /\ \A i \in InFlight : reqs[i].kind = "webhook" => reqs[i].signature = "valid"
    /\ ( /\ lastResp.kind = "webhook"
         /\ \/ lastResp.signature = "missing"
            \/ lastResp.signature \in {"forged", "tampered"} /\ webhookKey = ProviderSecret )
       => /\ lastResp.status = 400
          /\ lastResp.sends = 1
          /\ ~lastResp.verified
          /\ lastResp.calls = <<>>
          /\ ~lastResp.wrote
          /\ lastResp.data = NoData

\* a tampered body was delivered while the store held a document made by the Issuer
SignatureRejectionWitness ==
    /\ lastResp.kind = "webhook"
    /\ lastResp.signature = "tampered"
    /\ webhookKey = ProviderSecret
    /\ lastResp.status = 400
    /\ "u1" \in DOMAIN docs

\* the customer lookup of the last finished request answered
LookupAnswered(r) ==
    /\ r.kind = "webhook"
    /\ r.verified
    /\ r.event.type \in {"customer.subscription.created", "customer.subscription.updated",
                         "invoice.payment_succeeded", "invoice.payment_failed"}
    /\ r.calls # <<>>
    /\ r.calls[1] = "stripe.customers.retrieve"
    /\ r.threw # "stripe.customers.retrieve"

HasUid(customerId) == "uid" \in DOMAIN customers[customerId].metadata

\* C2: for each of the four handled event types, when the customer retrieved for
\* the event's customer id has no uid in its metadata the webhook answers 400
\* {error: "UID not found in metadata"} and no document write is attempted; no
\* request for such a customer is ever awaiting a document write.
MetadataMissSafety ==
    /\ \A i \in InFlight :
          (reqs[i].kind = "webhook" /\ reqs[i].pc = "updateDoc")
            => HasUid(reqs[i].event.object.customer)
    /\ (LookupAnswered(lastResp) /\ ~HasUid(lastResp.event.object.customer))
         => /\ lastResp.status = 400
            /\ lastResp.body = [error |-> "UID not found in metadata"]
            /\ lastResp.sends = 1
            /\ lastResp.calls = <<"stripe.customers.retrieve">>
            /\ ~lastResp.wrote

\* a subscription event for a customer without uid was answered, while the store
\* holds documents it could have been written to
MetadataMissWitness ==
    /\ LookupAnswered(lastResp)
    /\ ~HasUid(lastResp.event.object.customer)
    /\ lastResp.event.type = "customer.subscription.created"
    /\ lastResp.status = 400
    /\ DOMAIN docs = {"u1", "u2"}

\* the last two document writes were made by deliveries of one and the same event
Redelivered ==
    /\ lastWrite.kind = "webhook"
    /\ lastWrite.prev.kind = "webhook"
    /\ lastWrite.prev.event = lastWrite.event
    /\ lastWrite.prev.uid = lastWrite.uid

\* C3: webhook mutations are idempotent: when a verified event is delivered and
\* applied twice in a row, the second delivery leaves the store, and so every
\* field of the document, exactly as the first one left it.
WebhookIdempotence ==
    Redelivered => lastWrite.post = lastWrite.pre

\* an invoice.payment_succeeded event was applied twice in a row
WebhookIdempotenceWitness ==
    /\ Redelivered
    /\ lastWrite.event.type = "invoice.payment_succeeded"
    /\ lastResp.status = 200
    /\ "lastPaymentAmount" \in DOMAIN docs[lastWrite.uid]

\* the fields section 4.2 of the specification lists for each event type
ListedFields(type) ==
    CASE type = "customer.subscription.created" ->
           {"status", "planId", "subscriptionId", "customerId", "createdAt",
            "currentPeriodStart", "currentPeriodEnd", "cancelAtPeriodEnd"}
      [] type = "customer.subscription.updated" ->
           {"status", "planId", "customerId", "currentPeriodStart", "currentPeriodEnd",
            "cancelAtPeriodEnd"}
      [] type = "invoice.payment_succeeded" ->
           {"status", "customerId", "lastPaymentDate", "lastPaymentAmount", "invoicePdf"}
      [] type = "invoice.payment_failed" ->
           {"status", "customerId", "lastFailedPaymentDate"}
      [] OTHER -> {}

\* field f has the same presence and value in documents d and e
SameField(d, e, f) ==
    /\ (f \in DOMAIN d) = (f \in DOMAIN e)
    /\ f \in DOMAIN d => d[f] = e[f]

\* C4: a webhook event that mutates a document changes only the fields listed
\* for its type, in the document keyed by the uid of the customer's metadata:
\* every other field of that document keeps its presence and value, and the
\* documents of all other uids are unchanged.
FieldMergeIsolation ==
    lastWrite.kind = "webhook" =>
      LET u == lastWrite.uid
          pre == lastWrite.pre
          post == lastWrite.post
      IN  /\ HasUid(lastWrite.event.object.customer)
          /\ u = customers[lastWrite.event.object.customer].metadata.uid
          /\ DOMAIN post = DOMAIN pre \cup {u}
          /\ \A k \in DOMAIN pre \ {u} : post[k] = pre[k]
          /\ u \in DOMAIN pre =>
                \A f \in (DOMAIN pre[u] \cup DOMAIN post[u]) \ ListedFields(lastWrite.event.type) :
                    SameField(pre[u], post[u], f)

\* an invoice.payment_failed event set the status of a document that held planId
\* and subscriptionId from earlier writes, next to another uid's document
FieldMergeIsolationWitness ==
    /\ lastWrite.kind = "webhook"
    /\ lastWrite.event.type = "invoice.payment_failed"
    /\ {"planId", "subscriptionId", "stripeCustomerId"} \subseteq DOMAIN lastWrite.pre[lastWrite.uid]
    /\ lastWrite.post[lastWrite.uid].status = "past_due"
    /\ lastWrite.pre[lastWrite.uid].status # "past_due"
    /\ DOMAIN lastWrite.pre = {"u1", "u2"}

\* the fields the Issuer writes
IssuerFields == {"uid", "status", "stripeCustomerId", "subscriptionId", "currentPeriodEnd"}

\* C5: the Issuer's document write is a merge upsert: when payment-sheet is called
\* for a uid whose document exists, the fields the Issuer does not write (planId,
\* customerId, currentPeriodStart, ...) keep the values they had before the call.
IssuerMergeUpsert ==
    (lastWrite.kind = "payment-sheet" /\ lastWrite.uid \in DOMAIN lastWrite.pre) =>
      \A f \in DOMAIN lastWrite.pre[lastWrite.uid] \ IssuerFields :
          SameField(lastWrite.pre[lastWrite.uid], lastWrite.post[lastWrite.uid], f)

\* a verified handled event that calls for a document write, answered without a
\* failure of the customer lookup or of the store's availability
Applicable(r) ==
    /\ LookupAnswered(r)
    /\ HasUid(r.event.object.customer)
    /\ r.event.type \in InvoiceTypes => r.event.object.subscription # Null
    /\ r.body # [error |-> StoreError]

TargetUid(r) == customers[r.event.object.customer].metadata.uid

\* C6 as claimed: webhook mutations are upserts: a verified handled event for a
\* uid, with or without a document, is answered 200 {received: true} and leaves a
\* document of that uid holding the event's fields.
WebhookUpsert ==
    Applicable(lastResp) =>
      /\ lastResp.status = 200
      /\ lastResp.body = [received |-> TRUE]
      /\ TargetUid(lastResp) \in DOMAIN docs

\* C6 as amended: webhook mutations are merge-updates of an existing document:
\* with a document for the uid the event's fields are written and the answer is
\* 200 {received: true}; without one no document is created and the answer is 400
\* with the store's not-found error.
WebhookUpdatesExisting ==
    Applicable(lastResp) =>
      LET u == TargetUid(lastResp) IN
      \/ /\ lastResp.status = 200
         /\ lastResp.body = [received |-> TRUE]
         /\ lastResp.wrote
         /\ lastWrite.kind = "webhook" /\ lastWrite.event = lastResp.event
         /\ lastWrite.uid = u
         /\ u \in DOMAIN lastWrite.pre
         /\ DOMAIN lastResp.data = ListedFields(lastResp.event.type)
         /\ \A f \in DOMAIN lastResp.data : docs[u][f] = lastResp.data[f]
      \/ /\ lastResp.status = 400
         /\ lastResp.body = [error |-> "No document to update"]
         /\ ~lastResp.wrote
         /\ u \notin DOMAIN docs

\* a customer.subscription.created event arrived for a uid without a document
WebhookUpdatesExistingWitness ==
    /\ Applicable(lastResp)
    /\ lastResp.event.type = "customer.subscription.created"
    /\ TargetUid(lastResp) \notin DOMAIN docs
    /\ lastResp.status = 400

\* the document read of a cancellation answered
ReadAnswered(r) ==
    /\ r.kind = "cancel"
    /\ r.calls # <<>>
    /\ r.calls[1] = "getDoc"
    /\ r.threw # "getDoc"

\* C7: a cancellation for a uid without a document is answered 404, and one for
\* a uid whose document has no subscriptionId 400; in both cases the provider is
\* never called and no document is written, and no cancellation for such a uid
\* is ever awaiting the provider or the store write.
CancelPreconditions ==
    /\ \A i \in InFlight :
          (reqs[i].kind = "cancel" /\ reqs[i].pc \in {"subscriptionUpdate", "updateDoc"})
            => /\ reqs[i].uid \in DOMAIN docs
               /\ "subscriptionId" \in DOMAIN docs[reqs[i].uid]
    /\ ReadAnswered(lastResp) =>
          LET u == lastResp.uid
              untouched == /\ lastResp.calls = <<"getDoc">>
                           /\ lastResp.updates = <<>>
                           /\ ~lastResp.wrote
                           /\ lastResp.sends = 1
          IN  /\ u \notin DOMAIN docs => (lastResp.status = 404 /\ untouched)
              /\ (u \in DOMAIN docs /\ "subscriptionId" \notin DOMAIN docs[u])
                    => (lastResp.status = 400 /\ untouched)

\* a cancellation was answered for a uid whose document has no subscriptionId,
\* while another uid has none at all
CancelPreconditionsWitness ==
    /\ ReadAnswered(lastResp)
    /\ lastResp.uid \in DOMAIN docs
    /\ "subscriptionId" \notin DOMAIN docs[lastResp.uid]
    /\ lastResp.status = 400
    /\ "u1" \notin DOMAIN docs
    /\ subs # EmptyStore

\* C8: whenever a cancellation is answered 200, the provider was asked exactly
\* once, to set cancel_at_period_end on the stored subscriptionId (no immediate
\* cancel), and the document write of status "cancelling", cancelAtPeriodEnd true,
\* cancelledAt and the provider's currentPeriodEnd was applied before the answer;
\* when the provider call or the document write fails the answer is 400.
CancellationSuccess ==
    lastResp.kind = "cancel" =>
      /\ lastResp.status = 200 =>
            LET u == lastResp.uid
                sid == lastResp.read.subscriptionId
            IN  /\ lastResp.calls = <<"getDoc", "stripe.subscriptions.update", "updateDoc">>
                /\ lastResp.updates = <<[id |-> sid, params |-> [cancel_at_period_end |-> TRUE]]>>
                /\ subs[sid].cancel_at_period_end
                /\ lastResp.wrote
                /\ lastWrite.kind = "cancel" /\ lastWrite.uid = u
                /\ docs = lastWrite.post
                /\ docs[u].status = "cancelling"
                /\ docs[u].cancelAtPeriodEnd = TRUE
                /\ "cancelledAt" \in DOMAIN docs[u]
                /\ docs[u].currentPeriodEnd = ToString(subs[sid].current_period_end * 1000)
                /\ lastResp.body.data = [status |-> "cancelling",
                                         currentPeriodEnd |-> docs[u].currentPeriodEnd]
                /\ lastResp.sends = 1
      /\ lastResp.threw \in {"stripe.subscriptions.update", "updateDoc"} =>
            (lastResp.status = 400 /\ lastResp.sends = 1)

\* a cancellation was answered 200
CancellationSuccessWitness ==
    /\ lastResp.kind = "cancel"
    /\ lastResp.status = 200
    /\ lastWrite.pre[lastResp.uid].status # "cancelling"

\* the status an event of each handled type asks for
StatusOf(event) ==
    CASE event.type = "invoice.payment_succeeded" -> "active"
      [] event.type = "invoice.payment_failed" -> "past_due"
      [] OTHER -> event.object.status

\* the last two writes are of events received in the reverse of their provider-side order
OutOfOrder ==
    /\ lastWrite.kind = "webhook"
    /\ lastWrite.prev.kind = "webhook"
    /\ lastWrite.prev.uid = lastWrite.uid
    /\ lastWrite.prev.event.created > lastWrite.event.created

\* C9 as claimed: when two events for one uid that write the same field are
\* received in the reverse of their provider-side order, the document ends with
\* the value of the event that is later in provider-side order.
ProviderOrderWins ==
    OutOfOrder => docs[lastWrite.uid].status = StatusOf(lastWrite.prev.event)

\* C9 as amended: the document ends with the values of the event that was
\* processed last at this service, also when that event is the older one in
\* provider-side order.
ReceiptOrderWins ==
    lastWrite.kind = "webhook" =>
      /\ docs = lastWrite.post
      /\ docs[lastWrite.uid].status = StatusOf(lastWrite.event)
      /\ \A f \in ListedFields(lastWrite.event.type) :
            /\ f \in DOMAIN lastWrite.data
            /\ docs[lastWrite.uid][f] = lastWrite.data[f]

\* an older event was applied after a newer one that asked for another status
ReceiptOrderWinsWitness ==
    /\ OutOfOrder
    /\ StatusOf(lastWrite.prev.event) # StatusOf(lastWrite.event)
    /\ lastResp.status = 200

IdentifierFields == {"stripeCustomerId", "customerId", "subscriptionId"}

\* C10 as claimed: once a document holds a provider customer identifier or a
\* subscriptionId, no later write changes it.
IdentifiersSetOnce ==
    \A u \in DOMAIN lastWrite.pre :
        \A f \in IdentifierFields \cap DOMAIN lastWrite.pre[u] :
            SameField(lastWrite.pre[u], lastWrite.post[u], f)

\* C10 as amended: which writes change the identifiers of an existing document.
\* A cancellation changes none; a webhook event never changes stripeCustomerId,
\* changes subscriptionId only if it is customer.subscription.created (to the
\* event's subscription) and sets customerId to the event's customer; a
\* payment-sheet call replaces the document: stripeCustomerId and subscriptionId
\* become the ids created by that call and customerId is dropped.
IdentifierWriters ==
    LET u == lastWrite.uid
        pre == lastWrite.pre
        post == lastWrite.post
        e == lastWrite.event
    IN  /\ \A k \in DOMAIN pre \ {u} : post[k] = pre[k]
        /\ (lastWrite.kind = "cancel") =>
              \A f \in IdentifierFields : SameField(pre[u], post[u], f)
        /\ (lastWrite.kind = "webhook") =>
              /\ SameField(pre[u], post[u], "stripeCustomerId")
              /\ post[u].customerId = e.object.customer
              /\ IF e.type = "customer.subscription.created"
                    THEN post[u].subscriptionId = e.object.id
                    ELSE SameField(pre[u], post[u], "subscriptionId")
        /\ (lastWrite.kind = "payment-sheet") =>
              /\ "customerId" \notin DOMAIN post[u]
              /\ post[u].stripeCustomerId = lastWrite.customerId
              /\ post[u].subscriptionId = lastWrite.subscriptionId
              /\ subs[lastWrite.subscriptionId].customer = lastWrite.customerId

\* a second payment-sheet call for a uid replaced both identifiers of its document
IdentifierWritersWitness ==
    /\ lastWrite.kind = "payment-sheet"
    /\ lastWrite.uid \in DOMAIN lastWrite.pre
    /\ {"stripeCustomerId", "subscriptionId"} \subseteq DOMAIN lastWrite.pre[lastWrite.uid]
    /\ lastWrite.pre[lastWrite.uid].subscriptionId # docs[lastWrite.uid].subscriptionId
    /\ lastWrite.pre[lastWrite.uid].stripeCustomerId # docs[lastWrite.uid].stripeCustomerId

\* C11: record persistence: a subscription document that exists for a uid exists
\* in every later state (no handler deletes it), and the uid field of every
\* document equals the key it is stored under.
RecordPersistence ==
    [][/\ DOMAIN docs \subseteq DOMAIN docs'
       /\ \A u \in DOMAIN docs : "uid" \in DOMAIN docs[u] /\ docs[u].uid = u
       /\ \A u \in DOMAIN docs' : "uid" \in DOMAIN docs'[u] /\ docs'[u].uid = u]_vars

\* the document the Issuer created for u1 was written by a webhook event and then
\* by a cancellation, next to the document of u2
RecordPersistenceWitness ==
    /\ lastWrite.kind = "cancel"
    /\ lastWrite.prev.kind = "webhook"
    /\ lastWrite.uid = "u1"
    /\ lastWrite.prev.uid = "u1"
    /\ docs["u1"].uid = "u1"
    /\ docs["u1"].status = "cancelling"
    /\ "u2" \in DOMAIN docs

\* a verified delivery that calls for no document write: an event of a type
\* outside the four cases, or an invoice event that references no subscription
\* and whose customer lookup answered with a uid
NoOpDelivery(r) ==
    /\ r.kind = "webhook"
    /\ r.verified
    /\ \/ r.event.type \notin HandledTypes
       \/ /\ r.event.type \in InvoiceTypes
          /\ r.event.object.subscription = Null
          /\ LookupAnswered(r)
          /\ HasUid(r.event.object.customer)

\* C12: a verified event of an unhandled type, and a verified invoice event (with
\* resolvable uid) whose invoice references no subscription, change no document
\* and are answered 200 {received: true}; no such delivery ever awaits a write.
NoOpDeliveries ==
    /\ \A i \in InFlight :
          (reqs[i].kind = "webhook" /\ reqs[i].pc = "updateDoc")
            => /\ reqs[i].event.type \in HandledTypes
               /\ reqs[i].event.type \in InvoiceTypes
                     => reqs[i].event.object.subscription # Null
    /\ NoOpDelivery(lastResp) =>
          /\ lastResp.status = 200
          /\ lastResp.body = [received |-> TRUE]
          /\ lastResp.sends = 1
          /\ ~lastResp.wrote
          /\ lastResp.data = NoData
          /\ Count(lastResp.calls, "updateDoc") = 0
          /\ lastResp.event.type \notin HandledTypes => lastResp.calls = <<>>

\* an invoice.payment_succeeded event without a subscription was answered for a
\* uid that has a document
NoOpDeliveriesWitness ==
    /\ NoOpDelivery(lastResp)
    /\ lastResp.event.type = "invoice.payment_succeeded"
    /\ TargetUid(lastResp) \in DOMAIN docs
    /\ lastResp.status = 200

\* the three provider calls of the Issuer
IssuerProviderCalls ==
    {"stripe.customers.create", "stripe.ephemeralKeys.create", "stripe.subscriptions.create"}

\* C13: when one of the three provider calls of payment-sheet fails, the request
\* is answered 400 {error: <message>}, no document write is attempted, and the
\* customer created by an earlier successful call is left in place.
IssuerProviderFailure ==
    (lastResp.kind = "payment-sheet" /\ lastResp.threw \in IssuerProviderCalls) =>
      /\ lastResp.status = 400
      /\ lastResp.body = [error |-> ProviderError]
      /\ lastResp.sends = 1
      /\ ~lastResp.wrote
      /\ lastResp.data = NoData
      /\ Count(lastResp.calls, "setDoc") = 0
      /\ lastResp.calls[Len(lastResp.calls)] = lastResp.threw
      /\ lastResp.subscriptionId = Undefined
      /\ IF lastResp.threw = "stripe.customers.create"
           THEN lastResp.customerId = Undefined
           ELSE /\ lastResp.customerId \in DOMAIN customers
                /\ customers[lastResp.customerId] = NewCustomer(lastResp.uid)
                /\ \A s \in DOMAIN subs : subs[s].customer # lastResp.customerId

\* the creation of the subscription failed for u1, which has no document, after
\* the customer was created
IssuerProviderFailureWitness ==
    /\ lastResp.kind = "payment-sheet"
    /\ lastResp.threw = "stripe.subscriptions.create"
    /\ lastResp.uid = "u1"
    /\ lastResp.status = 400
    /\ "u1" \notin DOMAIN docs
    /\ lastResp.customerId \in DOMAIN customers

\* C14: a payment-sheet request with uid u and a priceId, all provider calls and
\* the store write succeeding, is answered 200 with the payment intent's client
\* secret, the ephemeral key's secret, the customer id and the subscription id;
\* the customer it created carries u in its metadata, and document u is exactly
\* {uid: u, status: "pending", stripeCustomerId, subscriptionId, currentPeriodEnd: null}.
IssuerSuccess ==
    lastResp.kind = "payment-sheet" =>
      /\ lastResp.wrote = (lastResp.threw = "none")
      /\ lastResp.wrote =>
            LET u == lastResp.uid
                c == lastResp.customerId
                s == lastResp.subscriptionId
            IN  /\ lastResp.status = 200
                /\ lastResp.sends = 1
                /\ lastResp.calls = <<"stripe.customers.create", "stripe.ephemeralKeys.create",
                                      "stripe.subscriptions.create", "setDoc">>
                /\ lastResp.body = [paymentIntent |-> "pi_secret_" \o s,
                                    ephemeralKey |-> "ek_secret_" \o c,
                                    customer |-> c, subscriptionId |-> s]
                /\ c \in DOMAIN customers
                /\ "uid" \in DOMAIN customers[c].metadata
                /\ customers[c].metadata.uid = u
                /\ s \in DOMAIN subs
                /\ subs[s].customer = c
                /\ subs[s].price = lastResp.priceId
                /\ u \in DOMAIN docs
                /\ docs[u] = [uid |-> u, status |-> "pending", stripeCustomerId |-> c,
                              subscriptionId |-> s, currentPeriodEnd |-> "null"]

\* the Issuer created the document of u1
IssuerSuccessWitness ==
    /\ lastResp.kind = "payment-sheet"
    /\ lastResp.wrote
    /\ lastResp.uid = "u1"
    /\ lastResp.status = 200
    /\ "u1" \notin DOMAIN lastWrite.pre
    /\ docs["u1"].status = "pending"

\* C15: a webhook request that carries a stripe-signature header while no signing
\* secret is configured is answered 500 without verification, customer lookup or
\* document write; a request without the header is answered 400 whether or not the
\* secret is configured; without a secret no webhook request gets past the checks.
WebhookMisconfiguration ==
    /\ webhookKey = Undefined => \A i \in InFlight : reqs[i].kind # "webhook"
    /\ lastResp.kind = "webhook" =>
          /\ lastResp.signature = "missing" =>
                /\ lastResp.status = 400
                /\ lastResp.body = [error |-> "Webhook Error: Missing signature"]
                /\ lastResp.sends = 1
                /\ ~lastResp.verified
          /\ (lastResp.signature # "missing" /\ webhookKey = Undefined) =>
                /\ lastResp.status = 500
                /\ lastResp.body = [error |-> "Server configuration error"]
                /\ lastResp.sends = 1
                /\ ~lastResp.verified
                /\ lastResp.calls = <<>>
                /\ ~lastResp.wrote
                /\ lastResp.data = NoData

\* a correctly signed event was delivered to a server without a signing secret,
\* whose store holds a document made by the Issuer
WebhookMisconfigurationWitness ==
    /\ lastResp.kind = "webhook"
    /\ lastResp.signature = "valid"
    /\ webhookKey = Undefined
    /\ lastResp.status = 500
    /\ "u1" \in DOMAIN docs

\* C16: a step of a webhook request for a handled, mutating event: while it awaits
\* a call it changes no document; it is answered 200 only by the step in which its
\* document write succeeds, and when the customer lookup or the document write
\* throws it is answered 400 {error: <message>} and the store is left as it was.
AccurateAcknowledgement ==
    [][\A i \in Slots :
         ( /\ reqs[i] # Idle
           /\ reqs[i].kind = "webhook"
           /\ MutatesDocument(reqs[i].event)
           /\ reqs'[i] # reqs[i] ) =>
            LET r == reqs[i] IN
            /\ reqs'[i] # Idle => docs' = docs
            /\ reqs'[i] = Idle =>
                  /\ lastResp'.event = r.event
                  /\ lastResp'.sends = 1
                  /\ lastResp'.status \in {200, 400}
                  /\ lastResp'.status = 200 =>
                        /\ r.pc = "updateDoc"
                        /\ lastResp'.threw = "none"
                        /\ lastResp'.wrote
                        /\ lastResp'.body = [received |-> TRUE]
                        /\ r.uid \in DOMAIN docs
                        /\ \A f \in DOMAIN r.data : docs'[r.uid][f] = r.data[f]
                        /\ lastWrite'.event = r.event
                  /\ lastResp'.threw \in {"stripe.customers.retrieve", "updateDoc"} =>
                        /\ lastResp'.status = 400
                        /\ lastResp'.body \in {[error |-> ProviderError], [error |-> StoreError],
                                               [error |-> NotFoundError]}
                        /\ ~lastResp'.wrote
                        /\ docs' = docs
                        /\ lastWrite' = lastWrite
                  /\ lastResp'.status = 400 =>
                        /\ docs' = docs
                        /\ ~lastResp'.wrote]_vars

\* the store failed on the write of an event for a uid that has a document
AccurateAcknowledgementWitness ==
    /\ lastResp.kind = "webhook"
    /\ lastResp.threw = "updateDoc"
    /\ lastResp.body = [error |-> StoreError]
    /\ lastResp.status = 400
    /\ lastResp.uid \in DOMAIN docs
    /\ lastWrite.kind = "payment-sheet"

\* the Issuer created the first subscription for a uid, and the server verifies
IssuedFirst ==
    /\ webhookKey = ProviderSecret
    /\ FirstSubscription \in DOMAIN subs
    /\ HasUid(subs[FirstSubscription].customer)

\* a delivery of the event of this type was applied and answered 200
Applied(type) ==
    /\ FirstSubscription \in DOMAIN subs
    /\ lastResp.kind = "webhook"
    /\ lastResp.event = RetriedEvent(type)
    /\ lastResp.status = 200
    /\ lastResp.wrote

\* C17: with the provider delivering each event again and again, lookup and store
\* failures of the deliveries transient and every awaited call settling, each
\* handled event of a subscription created through the Issuer is eventually
\* applied to the uid's document and answered 200.
EventualConsistency ==
    \A type \in RetriedTypes : IssuedFirst ~> Applied(type)

\* C18: concurrent handlers on one uid do not clobber each other's fields: when a
\* handler writes the document of a uid that another handler wrote while the
\* first was in flight, every field written by only one of the two ends with the
\* value that handler wrote.
NoClobber ==
    (lastWrite.overlapped /\ lastWrite.prev.uid = lastWrite.uid) =>
      LET d == lastWrite.post[lastWrite.uid] IN
      /\ \A f \in DOMAIN lastWrite.data : d[f] = lastWrite.data[f]
      /\ \A f \in DOMAIN lastWrite.prev.data \ DOMAIN lastWrite.data :
            /\ f \in DOMAIN d
            /\ d[f] = lastWrite.prev.data[f]

\* the moves of the status that go against the progression
\* pending -> active <-> past_due -> cancelling -> canceled
Backwards(from, to) ==
    \/ from = "cancelling" /\ to \in {"active", "past_due", "pending"}
    \/ from \in {"active", "past_due"} /\ to = "pending"

\* C19 as claimed: no write moves the status of a document backwards, from
\* cancelling to active, past_due or pending, or from active, past_due or
\* cancelling to pending.
StatusProgression ==
    \A u \in DOMAIN lastWrite.pre :
        ~Backwards(lastWrite.pre[u].status, lastWrite.post[u].status)

\* C19 as amended: the progression is not enforced: every write sets the status
\* from the request alone, whatever status is stored: payment-sheet "pending", a
\* cancellation "cancelling", a subscription event its subscription's status,
\* invoice.payment_succeeded "active" and invoice.payment_failed "past_due".
StatusFromRequest ==
    lastWrite.kind # "none" =>
      /\ lastWrite.post[lastWrite.uid].status =
            CASE lastWrite.kind = "payment-sheet" -> "pending"
              [] lastWrite.kind = "cancel" -> "cancelling"
              [] OTHER -> StatusOf(lastWrite.event)
      /\ \A u \in DOMAIN lastWrite.pre \ {lastWrite.uid} :
            lastWrite.post[u].status = lastWrite.pre[u].status

\* an event processed after a cancellation moved the status from "cancelling"
\* back to "active"
StatusFromRequestWitness ==
    /\ lastWrite.kind = "webhook"
    /\ lastWrite.prev.kind = "cancel"
    /\ lastWrite.pre[lastWrite.uid].status = "cancelling"
    /\ docs[lastWrite.uid].status = "active"

\* C20: every request to each of the three endpoints sends exactly one response
\* on every path (a payment-sheet request whose document write fails after the 200
\* response attempts no second one), and a payment-sheet request answered 200 has
\* its pending document written.
ExactlyOneResponse ==
    lastResp.kind # "none" =>
      /\ lastResp.sends = 1
      /\ (lastResp.kind = "payment-sheet" /\ lastResp.status = 200) => lastResp.wrote

====
